---- MODULE Spec2Model ----
(***************************************************************************)
(* A model of pulsar/utils/config.py: the Setting registry filled by the   *)
(* SettingMeta metaclass, make_settings, the Config object with its        *)
(* attribute interception, Setting.set with the validators, and the        *)
(* command line parser built by Config.parser.                             *)
(*                                                                         *)
(* Python values are records [t, n, s]: t is the Python type, n the        *)
(* number of an int or bool, s the characters of a str.  Strings are       *)
(* sequences of one-character strings so that strip(), lower() and         *)
(* int(val, 0) are computed character by character.                        *)
(***************************************************************************)
EXTENDS Integers, Sequences, FiniteSets, TLC

VARIABLES KNOWN_SETTINGS, KNOWN_SETTINGS_SET, declared, heap, configs, nwrites, last

vars == <<KNOWN_SETTINGS, KNOWN_SETTINGS_SET, declared, heap, configs, nwrites, last>>

----------------------------------------------------------------------------
(* Python values *)

PyNone == [t |-> "NoneType", n |-> 0, s |-> <<>>]

PyInt(i) == [t |-> "int", n |-> i, s |-> <<>>]

PyBool(b) == [t |-> "bool", n |-> IF b THEN 1 ELSE 0, s |-> <<>>]

PyStr(chars) == [t |-> "str", n |-> 0, s |-> chars]

(* a list or a tuple of strings: s holds the items *)
PyList(items) == [t |-> "list", n |-> 0, s |-> items]

PyTuple(items) == [t |-> "tuple", n |-> 0, s |-> items]

(* the truth value Python's "if val" finds: None, 0, False and the empty   *)
(* str, list and tuple are false                                           *)
Truth(val) ==
    CASE val.t = "NoneType" -> FALSE
      [] val.t \in {"int", "bool"} -> val.n # 0
      [] OTHER -> val.s # <<>>

IsList(val) == val.t = "list"

(* isinstance(val, int_type): bool is a subclass of int *)
IsInt(val) == val.t \in {"int", "bool"}

IsString(val) == val.t = "str"

----------------------------------------------------------------------------
(* str.strip(), str.lower() and int(str, 0) *)

Whitespace == {" ", "\t", "\n", "\r"}

UpperChars == <<"A", "B", "C", "D", "E", "F", "G", "H", "I", "J", "K", "L", "M",
                "N", "O", "P", "Q", "R", "S", "T", "U", "V", "W", "X", "Y", "Z">>

LowerChars == <<"a", "b", "c", "d", "e", "f", "g", "h", "i", "j", "k", "l", "m",
                "n", "o", "p", "q", "r", "s", "t", "u", "v", "w", "x", "y", "z">>

DigitChars == <<"0", "1", "2", "3", "4", "5", "6", "7", "8", "9",
                "a", "b", "c", "d", "e", "f">>

IndexOf(seq, x) ==
    IF \E i \in 1..Len(seq) : seq[i] = x
    THEN CHOOSE i \in 1..Len(seq) : seq[i] = x
    ELSE 0

LowerChar(ch) ==
    IF IndexOf(UpperChars, ch) > 0 THEN LowerChars[IndexOf(UpperChars, ch)] ELSE ch

Lower(chars) == [i \in 1..Len(chars) |-> LowerChar(chars[i])]

RECURSIVE LStrip(_)
LStrip(chars) ==
    IF chars # <<>> /\ Head(chars) \in Whitespace THEN LStrip(Tail(chars)) ELSE chars

RECURSIVE RStrip(_)
RStrip(chars) ==
    IF chars # <<>> /\ chars[Len(chars)] \in Whitespace
    THEN RStrip(SubSeq(chars, 1, Len(chars) - 1))
    ELSE chars

Strip(chars) == RStrip(LStrip(chars))

(* the value of a digit in the given base, -1 when it is no digit of it *)
DigitVal(ch, base) ==
    LET i == IndexOf(DigitChars, LowerChar(ch))
    IN  IF i > 0 /\ i - 1 < base THEN i - 1 ELSE -1

AllDigits(chars, base) ==
    chars # <<>> /\ \A i \in 1..Len(chars) : DigitVal(chars[i], base) >= 0

RECURSIVE DigitsValue(_, _, _)
DigitsValue(chars, base, acc) ==
    IF chars = <<>> THEN acc
    ELSE DigitsValue(Tail(chars), base, acc * base + DigitVal(Head(chars), base))

(* the base a literal's prefix selects with base 0: 0x, 0o, 0b, a leading  *)
(* zero (octal, as the Umask description documents "0022"), else decimal   *)
LiteralBase(chars) ==
    IF Len(chars) >= 2 /\ chars[1] = "0" /\ LowerChar(chars[2]) = "x" THEN 16
    ELSE IF Len(chars) >= 2 /\ chars[1] = "0" /\ LowerChar(chars[2]) = "o" THEN 8
    ELSE IF Len(chars) >= 2 /\ chars[1] = "0" /\ LowerChar(chars[2]) = "b" THEN 2
    ELSE IF Len(chars) >= 2 /\ chars[1] = "0" THEN 8
    ELSE 10

LiteralDigits(chars) ==
    IF Len(chars) >= 2 /\ chars[1] = "0" /\ LowerChar(chars[2]) \in {"x", "o", "b"}
    THEN SubSeq(chars, 3, Len(chars))
    ELSE chars

(* int(chars, 0): [ok, val] *)
ParseInt(chars) ==
    LET stripped == Strip(chars)
        negative == stripped # <<>> /\ Head(stripped) = "-"
        signed   == stripped # <<>> /\ Head(stripped) \in {"-", "+"}
        body     == IF signed THEN Tail(stripped) ELSE stripped
        base     == LiteralBase(body)
        digits   == LiteralDigits(body)
    IN  IF AllDigits(digits, base)
        THEN [ok |-> TRUE,
              val |-> IF negative THEN 0 - DigitsValue(digits, base, 0)
                      ELSE DigitsValue(digits, base, 0)]
        ELSE [ok |-> FALSE, val |-> 0]

----------------------------------------------------------------------------
(* Validators: [exc, val], exc = "" when the validator returns val *)

Returns(val) == [exc |-> "", val |-> val]

Raises(exc) == [exc |-> exc, val |-> PyNone]

validate_bool(val) ==
    IF val.t = "bool" THEN Returns(val)
    ELSE IF ~IsString(val) THEN Raises("TypeError")
    ELSE IF Strip(Lower(val.s)) = <<"t", "r", "u", "e">> THEN Returns(PyBool(TRUE))
    ELSE IF Strip(Lower(val.s)) = <<"f", "a", "l", "s", "e">> THEN Returns(PyBool(FALSE))
    ELSE Raises("ValueError")

validate_pos_int(val) ==
    LET parsed == IF IsString(val) THEN ParseInt(val.s) ELSE [ok |-> FALSE, val |-> 0]
        exc    == IF IsInt(val) THEN ""
                  ELSE IF ~IsString(val) THEN "TypeError"
                  ELSE IF ~parsed.ok THEN "ValueError"
                  ELSE ""
        num    == IF IsInt(val) THEN val.n ELSE parsed.val
    IN  IF exc # "" THEN Raises(exc)
        ELSE IF num < 0 THEN Raises("ValueError")
        ELSE Returns(PyInt(num))

validate_string(val) ==
    IF val = PyNone THEN Returns(PyNone)
    ELSE IF ~IsString(val) THEN Raises("TypeError")
    ELSE Returns(PyStr(Strip(val.s)))

validate_list(val) ==
    IF Truth(val) /\ ~IsList(val) THEN Raises("TypeError")
    ELSE Returns(val)

----------------------------------------------------------------------------
(* The Setting classes.  BaseSettings, Setting, Workers, Timeout, Debug    *)
(* and LogConfig are class statements of config.py, executed top to        *)
(* bottom on import.  TaskPath and TaskWorkers are the class statements of *)
(* an application module that imports Setting: both are scoped to the      *)
(* application "taskqueue", and TaskWorkers reuses the name "workers".     *)
(* User and Group are class statements of config.py too; Bind is the       *)
(* setting "bind" that Config.address reads, which config.py does not      *)
(* declare and a server application does.                                  *)

NoCli == <<>>

ClassDefaults ==
    [parents |-> TRUE, virtual |-> FALSE, name |-> "", section |-> "", cli |-> NoCli,
     nargs |-> "", validator |-> "validate_string", type |-> "", default |-> PyNone,
     app |-> "", action |-> ""]

ClassAttrs(cls) ==
    CASE cls = "BaseSettings" ->
           [ClassDefaults EXCEPT !.parents = FALSE]
      [] cls = "Setting" ->
           [ClassDefaults EXCEPT !.virtual = TRUE]
      [] cls = "Workers" ->
           [ClassDefaults EXCEPT !.name = "workers", !.section = "Worker Processes",
                                 !.cli = <<"-w", "--workers">>,
                                 !.validator = "validate_pos_int", !.type = "int",
                                 !.default = PyInt(1)]
      [] cls = "Timeout" ->
           [ClassDefaults EXCEPT !.name = "timeout", !.section = "Worker Processes",
                                 !.cli = <<"-t", "--timeout">>,
                                 !.validator = "validate_pos_int", !.type = "int",
                                 !.default = PyInt(30)]
      [] cls = "Debug" ->
           [ClassDefaults EXCEPT !.name = "debug", !.section = "Debugging",
                                 !.cli = <<"--debug">>,
                                 !.validator = "validate_bool",
                                 !.action = "store_true",
                                 !.default = PyBool(FALSE)]
      [] cls = "LogConfig" ->
           [ClassDefaults EXCEPT !.name = "logconfig", !.section = "Logging"]
      [] cls = "User" ->
           [ClassDefaults EXCEPT !.name = "user", !.section = "Server Mechanics",
                                 !.cli = <<"-u", "--user">>]
      [] cls = "Group" ->
           [ClassDefaults EXCEPT !.name = "group", !.section = "Server Mechanics",
                                 !.cli = <<"-g", "--group">>]
      [] cls = "Bind" ->
           [ClassDefaults EXCEPT !.name = "bind", !.section = "Server Mechanics",
                                 !.cli = <<"-b", "--bind">>]
      [] cls = "TaskPath" ->
           [ClassDefaults EXCEPT !.name = "task_path", !.section = "Task Consumer",
                                 !.cli = <<"--task-path">>,
                                 !.app = "taskqueue"]
      [] cls = "TaskWorkers" ->
           [ClassDefaults EXCEPT !.name = "workers", !.section = "Task Consumer",
                                 !.cli = <<"--task-workers">>,
                                 !.validator = "validate_pos_int", !.type = "int",
                                 !.app = "taskqueue",
                                 !.default = PyInt(2)]

(* the class statements of config.py, in source order *)
SourceClasses == <<"BaseSettings", "Setting", "Workers", "Timeout", "Debug", "LogConfig">>

(* the class statements of the application module, in source order *)
AppClasses == <<"TaskPath", "TaskWorkers">>

AllClasses == SourceClasses \o AppClasses

Range(seq) == {seq[i] : i \in 1..Len(seq)}

(* no module body is running: config.py has been imported, and the        *)
(* application module either not yet or to its end.  The interpreter runs  *)
(* a module body without interruption, so only then can a caller act.      *)
Imported == Len(declared) \in {Len(SourceClasses), Len(AllClasses)}

(* the next class statement the interpreter may execute *)
CanDeclare(cls) ==
    /\ Len(declared) < Len(AllClasses)
    /\ cls = AllClasses[Len(declared) + 1]

(* attrs["validator"] = wrap_method(...): a function, always callable *)
wrap_method(validator) == validator

(* NewClass with the order taken after the append instead of before it *)
NewClassOrderAfterAppend(cls, order) ==
    [cls |-> cls, order |-> order + 1,
     validator |-> wrap_method(ClassAttrs(cls).validator),
     default |-> ClassAttrs(cls).default, value |-> PyNone]

(* the class object SettingMeta.__new__ builds: the class attributes that  *)
(* differ per class or that an instance may shadow                         *)
NewClass(cls, order) ==
    [cls |-> cls, order |-> order, validator |-> wrap_method(ClassAttrs(cls).validator),
     default |-> ClassAttrs(cls).default, value |-> PyNone]

(* last: the most recent call, its arguments and what it returned or raised *)
NoResult ==
    [op |-> "", cfg |-> 0, name |-> "", arg |-> PyNone, exc |-> "", ret |-> PyNone,
     app |-> "", include |-> [given |-> FALSE, names |-> {}],
     exclude |-> [given |-> FALSE, names |-> {}], settings |-> [k \in {} |-> ""],
     visited |-> <<>>, args |-> <<>>, calls |-> <<>>]

(* SettingMeta.__new__ *)
Declare(cls) ==
    /\ CanDeclare(cls)
    /\ declared' = Append(declared, cls)
    /\ IF ~ClassAttrs(cls).parents \/ ClassAttrs(cls).virtual
       THEN UNCHANGED <<KNOWN_SETTINGS, KNOWN_SETTINGS_SET>>
       ELSE /\ KNOWN_SETTINGS' =
                  Append(KNOWN_SETTINGS, NewClass(cls, Len(KNOWN_SETTINGS)))
            /\ KNOWN_SETTINGS_SET' =
                  IF ClassAttrs(cls).name # ""
                  THEN KNOWN_SETTINGS_SET \cup {ClassAttrs(cls).name}
                  ELSE KNOWN_SETTINGS_SET
    /\ last' = [NoResult EXCEPT !.op = "declare", !.name = cls]
    /\ UNCHANGED <<heap, configs, nwrites>>

----------------------------------------------------------------------------
(* Setting instances.  An instance is [cls, dict]: dict is the instance's  *)
(* __dict__, holding "value" once set() has assigned it; until then a read *)
(* of value finds the class attribute.  Instances live in the heap, a      *)
(* sequence indexed by object identity.                                    *)

ClassOf(cls) ==
    KNOWN_SETTINGS[CHOOSE i \in 1..Len(KNOWN_SETTINGS) : KNOWN_SETTINGS[i].cls = cls]

Validate(validator, val) ==
    CASE validator = "validate_bool" -> validate_bool(val)
      [] validator = "validate_pos_int" -> validate_pos_int(val)
      [] validator = "validate_string" -> validate_string(val)
      [] OTHER -> Raises("TypeError")

IsCallable(validator) ==
    validator \in {"validate_bool", "validate_pos_int", "validate_string"}

(* Setting.set running the validator and storing the raw input *)
Setting_set_unvalidated(class, inst, val) ==
    IF ~IsCallable(class.validator) THEN [exc |-> "TypeError", inst |-> inst]
    ELSE LET res == Validate(class.validator, val)
         IN  IF res.exc # "" THEN [exc |-> res.exc, inst |-> inst]
             ELSE [exc |-> "", inst |-> [inst EXCEPT !.dict = [value |-> val]]]

(* Setting.set storing the raw input before it runs the validator *)
Setting_set_assign_first(class, inst, val) ==
    IF ~IsCallable(class.validator) THEN [exc |-> "TypeError", inst |-> inst]
    ELSE LET res == Validate(class.validator, val)
         IN  IF res.exc # ""
             THEN [exc |-> res.exc, inst |-> [inst EXCEPT !.dict = [value |-> val]]]
             ELSE [exc |-> "", inst |-> [inst EXCEPT !.dict = [value |-> res.val]]]

(* Setting.set on the instance inst of class object class: [exc, inst] *)
Setting_set(class, inst, val) ==
    IF ~IsCallable(class.validator) THEN [exc |-> "TypeError", inst |-> inst]
    ELSE LET res == Validate(class.validator, val)
         IN  IF res.exc # "" THEN [exc |-> res.exc, inst |-> inst]
             ELSE [exc |-> "", inst |-> [inst EXCEPT !.dict = [value |-> res.val]]]

(* Setting.get: the instance attribute if there is one, else the class's *)
Setting_get(class, inst) ==
    IF "value" \in DOMAIN inst.dict THEN inst.dict.value ELSE class.value

EmptyDict == [k \in {} |-> PyNone]

(* Setting.__init__ on a fresh instance of class: [exc, inst] *)
Setting_init(class) ==
    LET fresh == [cls |-> class.cls, dict |-> EmptyDict]
    IN  IF class.default # PyNone THEN Setting_set(class, fresh, class.default)
        ELSE [exc |-> "", inst |-> fresh]

(* copy.copy: a new object with a copy of the instance's __dict__ *)
Setting_copy(inst) == [cls |-> inst.cls, dict |-> inst.dict]

----------------------------------------------------------------------------
(* make_settings *)

NotGiven == [given |-> FALSE, names |-> {}]

Given(names) == [given |-> TRUE, names |-> names]

(* Python truth of an optional list argument: None and [] are false *)
Truthy(list) == list.given /\ list.names # {}

EmptySettings == [k \in {} |-> 0]

(* Skipped with the include test applied to app-scoped settings too *)
SkippedIncludeAll(class, app, include, exclude) ==
    LET a == ClassAttrs(class.cls)
    IN  \/ a.app # "" /\ a.app # app
        \/ Truthy(include) /\ a.name \notin include.names
        \/ a.name \in (IF Truthy(exclude) THEN exclude.names ELSE {})

(* the loop body's three "continue" tests *)
Skipped(class, app, include, exclude) ==
    LET a == ClassAttrs(class.cls)
    IN  \/ a.app # "" /\ a.app # app
        \/ Truthy(include) /\ a.name \notin include.names /\ a.app = ""
        \/ a.name \in (IF Truthy(exclude) THEN exclude.names ELSE {})

(* the loop of make_settings from entry i on: [exc, settings, heap], where *)
(* settings maps a name to the identity of its copy                        *)
RECURSIVE MakeSettingsLoop(_, _, _, _, _, _)
MakeSettingsLoop(i, settings, hp, app, include, exclude) ==
    IF i > Len(KNOWN_SETTINGS) THEN [exc |-> "", settings |-> settings, heap |-> hp]
    ELSE LET class == KNOWN_SETTINGS[i]
             made  == Setting_init(class)
             name  == ClassAttrs(class.cls).name
         IN  IF made.exc # "" THEN [exc |-> made.exc, settings |-> settings, heap |-> hp]
             ELSE IF Skipped(class, app, include, exclude)
             THEN MakeSettingsLoop(i + 1, settings, hp, app, include, exclude)
             ELSE MakeSettingsLoop(
                      i + 1,
                      [k \in DOMAIN settings \cup {name} |->
                          IF k = name THEN Len(hp) + 1 ELSE settings[k]],
                      Append(hp, Setting_copy(made.inst)),
                      app, include, exclude)

make_settings(app, include, exclude) ==
    MakeSettingsLoop(1, EmptySettings, heap, app, include, exclude)


(* the class each name of a settings mapping is bound to *)
ClassesOf(settings, hp) == [k \in DOMAIN settings |-> hp[settings[k]].cls]

Apps == {"", "taskqueue", "wsgi"}

Includes == {NotGiven, Given({}), Given({"timeout"}), Given({"timeout", "debug"})}

Excludes == {NotGiven, Given({}), Given({"task_path"}), Given({"debug", "workers"})}

(* a direct call of make_settings: the caller keeps the mapping *)
MakeSettingsCall(app, include, exclude) ==
    /\ Imported
    /\ LET made == make_settings(app, include, exclude)
       IN  last' = [NoResult EXCEPT !.op = "make_settings", !.exc = made.exc,
                                    !.app = app, !.include = include,
                                    !.exclude = exclude,
                                    !.settings = ClassesOf(made.settings, made.heap)]
    /\ UNCHANGED <<KNOWN_SETTINGS, KNOWN_SETTINGS_SET, declared, heap, configs, nwrites>>

----------------------------------------------------------------------------
(* Config *)

ConfigIds == {1, 2}

Unbuilt == [built |-> FALSE, settings |-> EmptySettings, dict |-> EmptyDict]

(* the arguments Config is constructed with: Config(), Config(exclude=     *)
(* ["debug", "workers"]) and Config(app="taskqueue", include=["timeout"])  *)
InitArgs ==
    {[app |-> "", include |-> NotGiven, exclude |-> NotGiven],
     [app |-> "", include |-> NotGiven, exclude |-> Given({"debug", "workers"})],
     [app |-> "taskqueue", include |-> Given({"timeout"}), exclude |-> NotGiven]}

Description == PyStr(<<"P", "u", "l", "s", "a", "r", " ", "s", "e", "r", "v", "e", "r">>)

Epilog == PyStr(<<"H", "a", "v", "e", " ", "f", "u", "n", "!">>)

(* Config.__init__: the instance's __dict__ gets settings, description and *)
(* epilog; dict holds the attributes other than settings                   *)
Config_init(c, app, include, exclude) ==
    /\ Imported
    /\ ~configs[c].built
    /\ \A d \in ConfigIds : d < c => configs[d].built
    /\ LET made == make_settings(app, include, exclude)
       IN  /\ made.exc = ""
           /\ heap' = made.heap
           /\ configs' = [configs EXCEPT ![c] =
                  [built |-> TRUE, settings |-> made.settings,
                   dict |-> [k \in {"description", "epilog"} |->
                                IF k = "description" THEN Description ELSE Epilog]]]
           /\ last' = [NoResult EXCEPT !.op = "init", !.cfg = c, !.app = app,
                                       !.include = include, !.exclude = exclude,
                                       !.settings = ClassesOf(made.settings, made.heap)]
    /\ UNCHANGED <<KNOWN_SETTINGS, KNOWN_SETTINGS_SET, declared, nwrites>>

SettingNames == {"workers", "timeout", "debug", "logconfig", "task_path"}

AttrNames == SettingNames \cup {"no_such_setting"}

(* the properties of class Config that carry a setting's name *)
Properties == {"workers"}

(* the instance of Config c bound to name, and its class object *)
Bound(c, name) == heap[configs[c].settings[name]]

(* Config.__getattr__: called when the normal lookup finds nothing *)
Config_getattr(c, name) ==
    IF name \notin DOMAIN configs[c].settings
    THEN IF name \in KNOWN_SETTINGS_SET THEN Returns(PyNone)
         ELSE Raises("AttributeError")
    ELSE Returns(Setting_get(ClassOf(Bound(c, name).cls), Bound(c, name)))

(* the property Config.workers *)
Config_workers(c) ==
    IF "workers" \notin DOMAIN configs[c].settings THEN Raises("KeyError")
    ELSE Returns(Setting_get(ClassOf(Bound(c, "workers").cls), Bound(c, "workers")))

(* the read c.name: a property of the class first, then the instance's     *)
(* __dict__, then __getattr__                                              *)
Config_read(c, name) ==
    IF name \in Properties THEN Config_workers(c)
    ELSE IF name \in DOMAIN configs[c].dict THEN Returns(configs[c].dict[name])
    ELSE Config_getattr(c, name)

GetAttr(c, name) ==
    /\ configs[c].built
    /\ last' = [NoResult EXCEPT !.op = "getattr", !.cfg = c, !.name = name,
                                !.exc = Config_read(c, name).exc,
                                !.ret = Config_read(c, name).val]
    /\ UNCHANGED <<KNOWN_SETTINGS, KNOWN_SETTINGS_SET, declared, heap, configs, nwrites>>

(* Config.__setattr__: [exc, dict]; object.__setattr__ refuses a property  *)
(* that has no setter and otherwise stores into the instance's __dict__    *)
Config_setattr(c, name, value) ==
    IF name # "settings" /\ name \in DOMAIN configs[c].settings
    THEN [exc |-> "AttributeError", dict |-> configs[c].dict]
    ELSE IF name \in Properties
    THEN [exc |-> "AttributeError", dict |-> configs[c].dict]
    ELSE [exc |-> "",
          dict |-> [k \in DOMAIN configs[c].dict \cup {name} |->
                       IF k = name THEN value ELSE configs[c].dict[k]]]

AssignValues == {PyInt(7)}

(* the number of set calls and direct assignments a run makes *)
MaxWrites == 2

SetAttr(c, name, value) ==
    /\ configs[c].built
    /\ nwrites < MaxWrites
    /\ nwrites' = nwrites + 1
    /\ configs' = [configs EXCEPT ![c].dict = Config_setattr(c, name, value).dict]
    /\ last' = [NoResult EXCEPT !.op = "setattr", !.cfg = c, !.name = name,
                                !.arg = value,
                                !.exc = Config_setattr(c, name, value).exc]
    /\ UNCHANGED <<KNOWN_SETTINGS, KNOWN_SETTINGS_SET, declared, heap>>

RawInputs ==
    {PyInt(10), PyInt(60), PyStr(<<"4">>), PyStr(<<" ", "T", "R", "U", "E", " ">>)}

(* Config.set on settings whose instances are shared by class *)
Config_set_shared(c, name, value) ==
    IF name \notin DOMAIN configs[c].settings
    THEN [exc |-> "AttributeError", heap |-> heap]
    ELSE LET id  == configs[c].settings[name]
             res == Setting_set(ClassOf(heap[id].cls), heap[id], value)
         IN  [exc |-> res.exc,
              heap |-> [i \in DOMAIN heap |->
                          IF heap[i].cls = heap[id].cls THEN res.inst ELSE heap[i]]]

(* Config.set: [exc, heap] *)
Config_set(c, name, value) ==
    IF name \notin DOMAIN configs[c].settings
    THEN [exc |-> "AttributeError", heap |-> heap]
    ELSE LET id  == configs[c].settings[name]
             res == Setting_set(ClassOf(heap[id].cls), heap[id], value)
         IN  [exc |-> res.exc, heap |-> [heap EXCEPT ![id] = res.inst]]

Set(c, name, value) ==
    /\ configs[c].built
    /\ nwrites < MaxWrites
    /\ nwrites' = nwrites + 1
    /\ heap' = Config_set(c, name, value).heap
    /\ last' = [NoResult EXCEPT !.op = "set", !.cfg = c, !.name = name,
                                !.arg = value, !.exc = Config_set(c, name, value).exc]
    /\ UNCHANGED <<KNOWN_SETTINGS, KNOWN_SETTINGS_SET, declared, configs>>

----------------------------------------------------------------------------
(* Config.parser *)

(* the section strings in Python's string order *)
SectionOrder ==
    <<"Debugging", "Logging", "Server Mechanics", "Task Consumer", "Worker Processes">>

(* sorter: the key (section, order) of the setting bound to name, and the  *)
(* comparison of two such tuples                                           *)
sorter(c, name) ==
    [section |-> ClassAttrs(Bound(c, name).cls).section,
     order |-> ClassOf(Bound(c, name).cls).order]

(* the comparison of the sections alone *)
KeyLessSectionOnly(a, b) ==
    IndexOf(SectionOrder, a.section) < IndexOf(SectionOrder, b.section)

KeyLess(a, b) ==
    \/ IndexOf(SectionOrder, a.section) < IndexOf(SectionOrder, b.section)
    \/ a.section = b.section /\ a.order < b.order

(* sorted(keys, key=sorter): ascending and stable, as an insertion sort    *)
(* that puts a key behind the keys that are not greater                    *)
RECURSIVE Insert(_, _, _)
Insert(c, name, seq) ==
    IF seq = <<>> THEN <<name>>
    ELSE IF KeyLess(sorter(c, name), sorter(c, Head(seq))) THEN <<name>> \o seq
    ELSE <<Head(seq)>> \o Insert(c, name, Tail(seq))

RECURSIVE SortedKeys(_, _)
SortedKeys(c, keys) ==
    IF keys = <<>> THEN <<>>
    ELSE LET front == SortedKeys(c, SubSeq(keys, 1, Len(keys) - 1))
         IN  Insert(c, keys[Len(keys)], front)

(* Setting.add_argument adding a positional argument for every setting     *)
(* that has no flags                                                       *)
Setting_add_argument_always(cls) ==
    LET a      == ClassAttrs(cls)
        type   == IF a.type # "" /\ a.type # "string" THEN a.type ELSE ""
        action == IF a.action # "" THEN a.action ELSE "store"
    IN  IF a.cli # NoCli
        THEN <<[args |-> a.cli, dest |-> a.name, action |-> action, nargs |-> "",
                type |-> IF action # "store" THEN "" ELSE type]>>
        ELSE <<[args |-> <<a.name>>, dest |-> a.name, action |-> "store",
                nargs |-> a.nargs, type |-> type]>>

(* Setting.add_argument: the arguments the setting adds to the parser,     *)
(* none or one                                                             *)
Setting_add_argument(cls) ==
    LET a      == ClassAttrs(cls)
        type   == IF a.type # "" /\ a.type # "string" THEN a.type ELSE ""
        action == IF a.action # "" THEN a.action ELSE "store"
    IN  IF a.cli # NoCli
        THEN <<[args |-> a.cli, dest |-> a.name, action |-> action, nargs |-> "",
                type |-> IF action # "store" THEN "" ELSE type]>>
        ELSE IF a.nargs # "" /\ a.name # ""
        THEN <<[args |-> <<a.name>>, dest |-> a.name, action |-> "store",
                nargs |-> a.nargs, type |-> type]>>
        ELSE <<>>

VersionArgument ==
    [args |-> <<"--version">>, dest |-> "version", action |-> "version", nargs |-> "",
     type |-> ""]

RECURSIVE AddArguments(_, _)
AddArguments(c, names) ==
    IF names = <<>> THEN <<>>
    ELSE Setting_add_argument(Bound(c, Head(names)).cls) \o AddArguments(c, Tail(names))

(* the orders in which a dict may hand out its keys *)
RECURSIVE KeyOrders(_)
KeyOrders(S) ==
    IF S = {} THEN {<<>>}
    ELSE UNION {{<<k>> \o rest : rest \in KeyOrders(S \ {k})} : k \in S}

(* Config.parser with settings.keys() returning keys: the settings in the  *)
(* order visited and the arguments of the parser                           *)
Config_parser(c, keys) ==
    LET visited == SortedKeys(c, keys)
    IN  [visited |-> visited, args |-> <<VersionArgument>> \o AddArguments(c, visited)]

Parser(c) ==
    /\ configs[c].built
    /\ \E keys \in KeyOrders(DOMAIN configs[c].settings) :
          LET built == Config_parser(c, keys)
          IN  last' = [NoResult EXCEPT !.op = "parser", !.cfg = c,
                                       !.visited = built.visited, !.args = built.args]
    /\ UNCHANGED <<KNOWN_SETTINGS, KNOWN_SETTINGS_SET, declared, heap, configs, nwrites>>

----------------------------------------------------------------------------
(* The derived views Config.uid, Config.gid and Config.address *)

(* the truth value of a Setting instance in "if user:": the class defines  *)
(* neither __nonzero__ nor __len__, so every instance is true              *)
InstanceTruth(inst) == TRUE

(* what a collaborator of pulsar.utils.system does with its argument: it   *)
(* returns some value or raises                                            *)
CollaboratorOutcomes == {Returns(PyInt(0)), Returns(PyInt(33)), Raises("KeyError")}

NoCalls == <<>>

(* the view that applies the collaborator fn to the value of the setting   *)
(* bound to name: [exc, val, calls]                                        *)
Resolve(c, name, fn, outcome) ==
    IF InstanceTruth(Bound(c, name))
    THEN [exc |-> outcome.exc, val |-> outcome.val,
          calls |-> <<[fn |-> fn,
                       arg |-> Setting_get(ClassOf(Bound(c, name).cls), Bound(c, name))]>>]
    ELSE [exc |-> "", val |-> PyNone, calls |-> NoCalls]

(* Config.uid: self.settings.get('user') is None when user is not bound *)
Config_uid(c, outcome) ==
    IF "user" \notin DOMAIN configs[c].settings
    THEN [exc |-> "", val |-> PyNone, calls |-> NoCalls]
    ELSE Resolve(c, "user", "get_uid", outcome)

Config_gid(c, outcome) ==
    IF "group" \notin DOMAIN configs[c].settings
    THEN [exc |-> "", val |-> PyNone, calls |-> NoCalls]
    ELSE Resolve(c, "group", "get_gid", outcome)

(* Config.address: self.settings['bind'] raises when bind is not bound;    *)
(* the value reaches parse_address through to_bytestring                   *)
Config_address(c, outcome) ==
    IF "bind" \notin DOMAIN configs[c].settings
    THEN [exc |-> "KeyError", val |-> PyNone, calls |-> NoCalls]
    ELSE Resolve(c, "bind", "parse_address", outcome)

Views == {"uid", "gid", "address"}

Config_view(c, view, outcome) ==
    CASE view = "uid" -> Config_uid(c, outcome)
      [] view = "gid" -> Config_gid(c, outcome)
      [] view = "address" -> Config_address(c, outcome)

View(c, view, outcome) ==
    /\ configs[c].built
    /\ last' = [NoResult EXCEPT !.op = "view", !.cfg = c, !.name = view,
                                !.exc = Config_view(c, view, outcome).exc,
                                !.ret = Config_view(c, view, outcome).val,
                                !.calls = Config_view(c, view, outcome).calls]
    /\ UNCHANGED <<KNOWN_SETTINGS, KNOWN_SETTINGS_SET, declared, heap, configs, nwrites>>

(* the class statements executed before the views are read: those of       *)
(* config.py that the views depend on, and the application's Bind          *)
ViewClasses == <<"BaseSettings", "Setting", "User", "Group", "Bind">>

(* KNOWN_SETTINGS after SettingMeta.__new__ has run for each of classes *)
RECURSIVE RegistryOf(_)
RegistryOf(classes) ==
    IF classes = <<>> THEN <<>>
    ELSE LET front == RegistryOf(SubSeq(classes, 1, Len(classes) - 1))
             cls   == classes[Len(classes)]
         IN  IF ~ClassAttrs(cls).parents \/ ClassAttrs(cls).virtual THEN front
             ELSE Append(front, NewClass(cls, Len(front)))

(* Config() and Config(exclude=["user", "bind"]) *)
ViewArgs ==
    {[app |-> "", include |-> NotGiven, exclude |-> NotGiven],
     [app |-> "", include |-> NotGiven, exclude |-> Given({"user", "bind"})]}

ViewSettingNames == {"user", "group", "bind"}

ViewInputs == {PyNone, PyStr(<<" ", "w", "w", "w">>)}

BuiltConfig(settings) ==
    [built |-> TRUE, settings |-> settings,
     dict |-> [k \in {"description", "epilog"} |->
                  IF k = "description" THEN Description ELSE Epilog]]

(* the state once ViewClasses are declared and two Configs constructed *)
InitViews ==
    /\ KNOWN_SETTINGS = RegistryOf(ViewClasses)
    /\ KNOWN_SETTINGS_SET = {ClassAttrs(KNOWN_SETTINGS[i].cls).name :
                                i \in 1..Len(KNOWN_SETTINGS)} \ {""}
    /\ declared = ViewClasses
    /\ \E a1 \in ViewArgs, a2 \in ViewArgs :
          LET m1 == MakeSettingsLoop(1, EmptySettings, <<>>,
                                     a1.app, a1.include, a1.exclude)
              m2 == MakeSettingsLoop(1, EmptySettings, m1.heap,
                                     a2.app, a2.include, a2.exclude)
          IN  /\ heap = m2.heap
              /\ configs = [c \in ConfigIds |->
                               IF c = 1 THEN BuiltConfig(m1.settings)
                               ELSE BuiltConfig(m2.settings)]
    /\ nwrites = 0
    /\ last = NoResult

----------------------------------------------------------------------------
(* A direct call of validate_list *)

(* the longest str, list or tuple passed to validate_list *)
MaxItems == 2

Items == {"a", "b", " ", "0"}

RECURSIVE SeqsUpTo(_, _)
SeqsUpTo(S, n) ==
    IF n = 0 THEN {<<>>}
    ELSE SeqsUpTo(S, n - 1) \cup
         {Append(seq, x) : seq \in {q \in SeqsUpTo(S, n - 1) : Len(q) = n - 1}, x \in S}

ListInputs ==
    {PyNone, PyBool(FALSE), PyBool(TRUE)}
    \cup {PyInt(i) : i \in -1..MaxItems}
    \cup {PyStr(seq) : seq \in SeqsUpTo(Items, MaxItems)}
    \cup {PyList(seq) : seq \in SeqsUpTo(Items, MaxItems)}
    \cup {PyTuple(seq) : seq \in SeqsUpTo(Items, MaxItems)}

ValidateListCall(val) ==
    /\ Imported
    /\ last' = [NoResult EXCEPT !.op = "validate_list", !.arg = val,
                                !.exc = validate_list(val).exc,
                                !.ret = validate_list(val).val]
    /\ UNCHANGED <<KNOWN_SETTINGS, KNOWN_SETTINGS_SET, declared, heap, configs, nwrites>>

----------------------------------------------------------------------------

Init ==
    /\ KNOWN_SETTINGS = <<>>
    /\ KNOWN_SETTINGS_SET = {}
    /\ declared = <<>>
    /\ heap = <<>>
    /\ configs = [c \in ConfigIds |-> Unbuilt]
    /\ nwrites = 0
    /\ last = NoResult

DeclareNext == \E cls \in Range(AllClasses) : Declare(cls)

MakeSettingsNext ==
    \E app \in Apps, include \in Includes, exclude \in Excludes :
        MakeSettingsCall(app, include, exclude)

InitNext(C) ==
    \E c \in C, a \in InitArgs : Config_init(c, a.app, a.include, a.exclude)

GetAttrNext == \E c \in ConfigIds, name \in AttrNames : GetAttr(c, name)

SetAttrNext ==
    \E c \in ConfigIds, name \in AttrNames, value \in AssignValues : SetAttr(c, name, value)

SetNext(C) ==
    \E c \in C, name \in SettingNames \cup {"no_such_setting"}, value \in RawInputs :
        Set(c, name, value)

ParserNext(C) == \E c \in C : Parser(c)

ValidateListNext == \E val \in ListInputs : ValidateListCall(val)

ViewNext ==
    \E c \in ConfigIds, view \in Views, outcome \in CollaboratorOutcomes :
        View(c, view, outcome)

ViewSetNext ==
    \E c \in ConfigIds, name \in ViewSettingNames, value \in ViewInputs :
        Set(c, name, value)

(* set and the derived views, on Configs that bind user, group and bind *)
NextViews == ViewSetNext \/ ViewNext

SpecViews == InitViews /\ [][NextViews]_vars

(* declarations and direct calls of validate_list *)
NextValidators == DeclareNext \/ ValidateListNext

SpecValidators == Init /\ [][NextValidators]_vars

(* declarations and direct calls of make_settings *)
NextRegistry == DeclareNext \/ MakeSettingsNext

SpecRegistry == Init /\ [][NextRegistry]_vars

(* construction and attribute access *)
NextAccess == DeclareNext \/ InitNext(ConfigIds) \/ GetAttrNext \/ SetAttrNext

SpecAccess == Init /\ [][NextAccess]_vars

(* construction and set *)
NextSet == DeclareNext \/ InitNext(ConfigIds) \/ SetNext(ConfigIds)

SpecSet == Init /\ [][NextSet]_vars

(* one Config: construction, set and the parser *)
NextParser == DeclareNext \/ InitNext({1}) \/ SetNext({1}) \/ ParserNext({1})

SpecParser == Init /\ [][NextParser]_vars

Next ==
    \/ DeclareNext
    \/ MakeSettingsNext
    \/ InitNext(ConfigIds)
    \/ GetAttrNext
    \/ SetAttrNext
    \/ SetNext(ConfigIds)
    \/ ParserNext(ConfigIds)
    \/ ValidateListNext
    \/ ViewNext

Spec == Init /\ [][Next]_vars

----------------------------------------------------------------------------
(* Helpers of the properties *)

NameOf(class) == ClassAttrs(class.cls).name

(* the value get() returns for the setting that cfgs[c] binds to name, in  *)
(* the registry reg and the heap hp                                        *)
ValueIn(reg, hp, cfgs, c, name) ==
    LET inst  == hp[cfgs[c].settings[name]]
        class == reg[CHOOSE i \in 1..Len(reg) : reg[i].cls = inst.cls]
    IN  IF "value" \in DOMAIN inst.dict THEN inst.dict.value ELSE class.value

Value(c, name) == ValueIn(KNOWN_SETTINGS, heap, configs, c, name)

BoundNames(c) == DOMAIN configs[c].settings

----------------------------------------------------------------------------
(* C1: declaring a Setting type whose name is already registered under a   *)
(* different descriptor is refused: no two registry entries carry the same *)
(* name, and the mapping make_settings returns binds a name to the         *)
(* earliest descriptor declared under it, never to a later one.            *)
C1_DuplicateNameRefused ==
    /\ \A i, j \in 1..Len(KNOWN_SETTINGS) :
          i # j => NameOf(KNOWN_SETTINGS[i]) # NameOf(KNOWN_SETTINGS[j])
    /\ last.op = "make_settings" =>
          \A k \in DOMAIN last.settings :
             \A i \in 1..Len(KNOWN_SETTINGS) :
                NameOf(KNOWN_SETTINGS[i]) = k /\ KNOWN_SETTINGS[i].cls # last.settings[k]
                   => ClassOf(last.settings[k]).order < KNOWN_SETTINGS[i].order

----------------------------------------------------------------------------
(* C7 as stated: make_settings(app, include, exclude) returns exactly the  *)
(* names of the registered descriptors d with (d.app unset or d.app = app) *)
(* and (include not given, or d.name in include, or d app-scoped) and      *)
(* d.name not in exclude, for include and exclude not given or any list,   *)
(* the empty list included.                                                *)
C7_KeysAsStated ==
    last.op = "make_settings" =>
       DOMAIN last.settings =
          {NameOf(KNOWN_SETTINGS[i]) : i \in
             {j \in 1..Len(KNOWN_SETTINGS) :
                LET a == ClassAttrs(KNOWN_SETTINGS[j].cls)
                IN  /\ a.app = "" \/ a.app = last.app
                    /\ ~last.include.given \/ a.name \in last.include.names \/ a.app # ""
                    /\ a.name \notin last.exclude.names}}

(* C7: make_settings(app, include, exclude) returns exactly the names of   *)
(* the registered descriptors d with (d.app unset or d.app = app) and      *)
(* (include not given or empty, or d.name in include, or d app-scoped) and *)
(* d.name not in exclude.                                                  *)
C7_Keys ==
    last.op = "make_settings" =>
       /\ last.exc = ""
       /\ DOMAIN last.settings =
             {NameOf(KNOWN_SETTINGS[i]) : i \in
                {j \in 1..Len(KNOWN_SETTINGS) :
                   LET a == ClassAttrs(KNOWN_SETTINGS[j].cls)
                   IN  /\ a.app = "" \/ a.app = last.app
                       /\ \/ ~last.include.given
                          \/ last.include.names = {}
                          \/ a.name \in last.include.names
                          \/ a.app # ""
                       /\ a.name \notin last.exclude.names}}

(* make_settings was called with an empty include list and an exclude list *)
(* for an application with scoped settings, and returned the global        *)
(* settings too                                                            *)
C7_Witness ==
    /\ last.op = "make_settings"
    /\ last.app = "taskqueue"
    /\ last.include = Given({})
    /\ last.exclude = Given({"task_path"})
    /\ DOMAIN last.settings = {"workers", "timeout", "debug", "logconfig"}

----------------------------------------------------------------------------
(* C8: the registry holds exactly one entry per declared non-virtual type, *)
(* in declaration sequence; the entry at position i (counted from 0) has   *)
(* order i; virtual types and the base type are not entered and take no    *)
(* order number.                                                           *)
Registered(cls) == ClassAttrs(cls).parents /\ ~ClassAttrs(cls).virtual

C8_RegistryOrder ==
    /\ [i \in 1..Len(KNOWN_SETTINGS) |-> KNOWN_SETTINGS[i].cls]
          = SelectSeq(declared, Registered)
    /\ \A i \in 1..Len(KNOWN_SETTINGS) : KNOWN_SETTINGS[i].order = i - 1

(* a virtual type and several non-virtual types were declared *)
C8_Witness ==
    /\ "Setting" \in Range(declared)
    /\ Len(KNOWN_SETTINGS) >= 3
    /\ Len(declared) > Len(KNOWN_SETTINGS)

----------------------------------------------------------------------------
(* C2: an attribute-style read of a name n on a built Config returns the   *)
(* setting's get() value if n is bound in the instance, returns None       *)
(* without failing if n is registered but not bound in the instance, and   *)
(* fails with the not-found error if n is registered nowhere.              *)
C2_ReadOutcomes ==
    last.op = "getattr" =>
       IF last.name \in BoundNames(last.cfg)
       THEN last.exc = "" /\ last.ret = Value(last.cfg, last.name)
       ELSE IF last.name \in KNOWN_SETTINGS_SET
       THEN last.exc = "" /\ last.ret = PyNone
       ELSE last.exc = "AttributeError"

----------------------------------------------------------------------------
(* C3: a direct attribute-style assignment of a name that is a setting's   *)
(* name, bound in the instance or registered but filtered out of it, is    *)
(* rejected, and a filtered-out name is never given a value.               *)
C3_AssignmentRejected ==
    /\ last.op = "setattr" /\ last.name \in KNOWN_SETTINGS_SET
          => last.exc = "AttributeError"
    /\ \A c \in ConfigIds :
          configs[c].built =>
             \A name \in KNOWN_SETTINGS_SET \ BoundNames(c) :
                name \notin DOMAIN configs[c].dict

----------------------------------------------------------------------------
(* C4: Config.set(name, raw) fails with the not-found error when name is   *)
(* not bound; otherwise it runs the setting's validator on raw and either  *)
(* stores exactly validator(raw), or raises the validator's error and      *)
(* leaves the stored value and the rest of the Config as they were.        *)
C4_SetStep ==
    LET c    == last'.cfg
        name == last'.name
        out  == Validate(ClassOf(Bound(c, name).cls).validator, last'.arg)
    IN  nwrites' # nwrites =>
           /\ last'.op = "set"
           /\ configs' = configs
           /\ Len(heap') = Len(heap)
           /\ IF name \notin BoundNames(c)
              THEN last'.exc = "AttributeError" /\ heap' = heap
              ELSE /\ last'.exc = out.exc
                   /\ IF out.exc = ""
                      THEN ValueIn(KNOWN_SETTINGS', heap', configs', c, name) = out.val
                      ELSE heap' = heap

C4_SetAllOrNothing == [][C4_SetStep]_vars

(* a set was refused by the validator of a bound setting *)
C4_Witness ==
    /\ last.op = "set"
    /\ last.name \in BoundNames(last.cfg)
    /\ last.exc = "ValueError"

----------------------------------------------------------------------------
(* C5: the stored value of every bound setting is an output of its own     *)
(* validator, applied to its default or to an input of set, never a raw    *)
(* input; set("workers", "4") leaves the integer 4.                        *)
ValidatorOutputs(cls) ==
    {Validate(ClassAttrs(cls).validator, raw).val :
        raw \in {x \in RawInputs \cup {ClassAttrs(cls).default} :
                    Validate(ClassAttrs(cls).validator, x).exc = ""}}

C5_StoredIsValidated ==
    /\ \A c \in ConfigIds :
          configs[c].built =>
             \A name \in BoundNames(c) :
                Value(c, name) \in ValidatorOutputs(Bound(c, name).cls)
    /\ \A c \in ConfigIds :
          /\ last.op = "set" /\ last.cfg = c /\ last.name = "workers"
          /\ "workers" \in BoundNames(c)
          /\ last.arg = PyStr(<<"4">>)
          => last.exc = "" /\ Value(c, "workers") = PyInt(4)

(* set("workers", "4") was called on a Config that binds workers *)
C5_Witness ==
    /\ last.op = "set"
    /\ last.name = "workers"
    /\ last.arg = PyStr(<<"4">>)
    /\ "workers" \in BoundNames(last.cfg)
    /\ Value(last.cfg, "workers") = PyInt(4)

----------------------------------------------------------------------------
(* C6: a set on one Config changes only that Config's setting of that      *)
(* name: every other setting of the Config, every setting of every other   *)
(* Config and the registry's classes with their defaults keep their        *)
(* values, and a Config built afterwards starts from the defaults.         *)
C6_SetStep ==
    nwrites' # nwrites =>
       /\ KNOWN_SETTINGS' = KNOWN_SETTINGS
       /\ KNOWN_SETTINGS_SET' = KNOWN_SETTINGS_SET
       /\ configs' = configs
       /\ \A c \in ConfigIds :
             configs[c].built =>
                \A name \in BoundNames(c) :
                   c # last'.cfg \/ name # last'.name =>
                      ValueIn(KNOWN_SETTINGS', heap', configs', c, name) = Value(c, name)

C6_InitStep ==
    configs' # configs =>
       \A name \in DOMAIN configs'[last'.cfg].settings :
          LET cls == heap'[configs'[last'.cfg].settings[name]].cls
          IN  ValueIn(KNOWN_SETTINGS', heap', configs', last'.cfg, name)
                 = Validate(ClassAttrs(cls).validator, ClassAttrs(cls).default).val

C6_SetIsLocal == [][C6_SetStep /\ C6_InitStep]_vars

(* two Configs hold their own timeout, 10 and 60 *)
C6_Witness ==
    /\ configs[1].built /\ configs[2].built
    /\ "timeout" \in BoundNames(1) /\ "timeout" \in BoundNames(2)
    /\ Value(1, "timeout") = PyInt(10)
    /\ Value(2, "timeout") = PyInt(60)

----------------------------------------------------------------------------
(* C9: parser() adds the version flag first and visits the bound settings  *)
(* in ascending (section, order); the sequence does not depend on the      *)
(* order in which the dict hands out its keys nor on earlier set calls,    *)
(* and parser() changes no setting value.                                  *)
Dests(args) == [i \in 1..Len(args) |-> args[i].dest]

IsSubSeq(sub, seq) ==
    \E pos \in [1..Len(sub) -> 1..Len(seq)] :
       /\ \A i \in 1..Len(sub) : seq[pos[i]] = sub[i]
       /\ \A i, j \in 1..Len(sub) : i < j => pos[i] < pos[j]

(* m comes before n in ascending (section, order) *)
Before(c, m, n) ==
    LET sm == IndexOf(SectionOrder, ClassAttrs(Bound(c, m).cls).section)
        sn == IndexOf(SectionOrder, ClassAttrs(Bound(c, n).cls).section)
    IN  \/ sm < sn
        \/ sm = sn /\ ClassOf(Bound(c, m).cls).order < ClassOf(Bound(c, n).cls).order

C9_Visited ==
    last.op = "parser" =>
       /\ Len(last.args) >= 1
       /\ last.args[1] = VersionArgument
       /\ Len(last.visited) = Cardinality(BoundNames(last.cfg))
       /\ Range(last.visited) = BoundNames(last.cfg)
       /\ \A i, j \in 1..Len(last.visited) :
             i < j => Before(last.cfg, last.visited[i], last.visited[j])
       /\ IsSubSeq(Tail(Dests(last.args)), last.visited)

C9_ParserStep ==
    last'.op = "parser" => heap' = heap /\ configs' = configs

C9_ParserOrder == []C9_Visited /\ [][C9_ParserStep]_vars

(* the parser of a Config with settings of three sections, after a set *)
C9_Witness ==
    /\ last.op = "parser"
    /\ nwrites > 0
    /\ last.visited = <<"debug", "logconfig", "workers", "timeout">>

----------------------------------------------------------------------------
(* C10 as stated: the parser holds exactly one argument for every bound    *)
(* setting of the instance.                                                *)
ArgumentsFor(args, name) == {i \in 2..Len(args) : args[i].dest = name}

HasArgument(cls) ==
    \/ ClassAttrs(cls).cli # NoCli
    \/ ClassAttrs(cls).nargs # "" /\ ClassAttrs(cls).name # ""

----------------------------------------------------------------------------
(* C11: validate_list(val) returns val unchanged when val is None or a     *)
(* list, and raises for every other value, whatever its truth value.       *)
C11_ListOrNone ==
    last.op = "validate_list" =>
       IF last.arg = PyNone \/ last.arg.t = "list"
       THEN last.exc = "" /\ last.ret = last.arg
       ELSE last.exc # ""

----------------------------------------------------------------------------
(* C12: uid, gid and address return None without a call of the identity    *)
(* lookup or the address parser whenever the setting they rest on (user,   *)
(* group, bind) is unset, that is not bound or holding None; only when it  *)
(* holds a value is the collaborator called, once, with that value, and    *)
(* its result returned.                                                    *)
Underlying(view) ==
    CASE view = "uid" -> [name |-> "user", fn |-> "get_uid"]
      [] view = "gid" -> [name |-> "group", fn |-> "get_gid"]
      [] view = "address" -> [name |-> "bind", fn |-> "parse_address"]

C12_AbsentWhenUnset ==
    last.op = "view" =>
       LET u == Underlying(last.name)
       IN  IF u.name \notin BoundNames(last.cfg) \/ Value(last.cfg, u.name) = PyNone
           THEN last.exc = "" /\ last.ret = PyNone /\ last.calls = NoCalls
           ELSE last.calls = <<[fn |-> u.fn, arg |-> Value(last.cfg, u.name)]>>

====
